---- MODULE Spec2Model ----
(***************************************************************************)
(* Model of the ChEMBL resolution / enrichment / classification engine of  *)
(* the disease-target pipeline (chembl_data.py and its pipeline variants). *)
(*                                                                         *)
(* Strings are sequences of one-character strings, so that lower(),        *)
(* split() and the substring test `in` are computed character by           *)
(* character.  An HTTP exchange is a response record: a status code and    *)
(* the decoded JSON body.  The MeSH lookup and the batch runs of main with  *)
(* the CSV upsert are modelled at the level of their exchanges and rows.   *)
(***************************************************************************)
EXTENDS Integers, Sequences, FiniteSets, TLC

VARIABLES
    \* extract_moa_keyword
    kwText, kwResult, kwPc,
    \* get_chembl_id_exact
    rsKB, rsTier, rsIssued, rsResult, rsPc,
    \* fetch_target_name
    tgResp, tgResult, tgPc,
    \* fetch_moa_targets_for_ids
    enIds, enTargetKB, enIdx, mechanisms, enLog, enPc,
    \* fetch_approval_status (disease pipeline)
    apDisease, apResp, apResult, apMatched, apPc,
    \* format_multi_drug_output
    fmBlocks, fmResult, fmPc,
    \* get_mesh_term_for_disease and its caller DBClient.fetch_data
    msExchange, msResult, msMeshTerm, msPc,
    \* main: one batch run after the other, and the output CSV file
    csvFile, batch_data, extracted_drugs, mnRow, mnAggregated, mnRaised, mnPc,
    \* target pipeline: get_drugs_for_target and the loops of its main
    tpMechResp, tpMolKB, drugs, tpDrug, tpIndications, tpInd, results, tpPc

kwVars == <<kwText, kwResult, kwPc>>
rsVars == <<rsKB, rsTier, rsIssued, rsResult, rsPc>>
tgVars == <<tgResp, tgResult, tgPc>>
enVars == <<enIds, enTargetKB, enIdx, mechanisms, enLog, enPc>>
apVars == <<apDisease, apResp, apResult, apMatched, apPc>>
fmVars == <<fmBlocks, fmResult, fmPc>>
msVars == <<msExchange, msResult, msMeshTerm, msPc>>
mnVars == <<csvFile, batch_data, extracted_drugs, mnRow, mnAggregated, mnRaised, mnPc>>
tpVars == <<tpMechResp, tpMolKB, drugs, tpDrug, tpIndications, tpInd, results, tpPc>>
vars == <<kwVars, rsVars, tgVars, enVars, apVars, fmVars, msVars, mnVars, tpVars>>

----------------------------------------------------------------------------
(* Bounds of the model.                                                    *)

\* pieces concatenated into one mechanism-of-action text
MaxPieces == 3
\* molecules in one molecule-search answer
MaxHits == 2
\* target components of a target, and synonyms of a component
MaxComps == 2
MaxSyns == 2
\* mechanism records / activity records in one answer
MaxMechs == 2
MaxActs == 2
\* indication records in one answer, reference snippets in one record
MaxInds == 2
MaxRefs == 1
\* entities of one row and values of one entity handed to the aggregator
MaxBlocks == 2
MaxVals == 2
\* <TermSet> elements of one esearch answer
MaxTermSets == 2
\* trials the database query returns, and drugs extracted for one trial
MaxTrials == 2
MaxDrugs == 1
\* mechanism records of a target, indications of a drug
MaxTargetMechs == 3
MaxDrugInds == 1

----------------------------------------------------------------------------
(* Python values.                                                          *)

\* the value a call returned, or the exception it raised
Ret(v) == [kind |-> "return", value |-> v]
Raise(e) == [kind |-> e, value |-> <<>>]
NoResult == [kind |-> "none", value |-> <<>>]

\* the "NA" sentinel string
NA == <<"N", "A">>

\* resp.status_code == 200, and the non-success codes an exchange may answer with
HTTP_OK == 200
ErrorStatuses == <<404, 500>>

\* what dict.get(key) gives for a key the JSON object does not have
None == <<"None">>

----------------------------------------------------------------------------
(* Strings.                                                                *)

UpperCase == <<"A", "B", "C", "D", "E", "F", "G", "H", "I", "J", "K", "L", "M",
               "N", "O", "P", "Q", "R", "S", "T", "U", "V", "W", "X", "Y", "Z">>
LowerCase == <<"a", "b", "c", "d", "e", "f", "g", "h", "i", "j", "k", "l", "m",
               "n", "o", "p", "q", "r", "s", "t", "u", "v", "w", "x", "y", "z">>

\* the whitespace characters str.split() separates on
Whitespace == {" ", "\t"}

SP == <<" ">>
TAB == <<"\t">>

Digits == <<"0", "1", "2", "3", "4", "5", "6", "7", "8", "9">>

\* the characters strings are made of
Alphabet == {UpperCase[i] : i \in 1..Len(UpperCase)}
                \cup {LowerCase[i] : i \in 1..Len(LowerCase)}
                \cup {Digits[i] : i \in 1..Len(Digits)}
                \cup Whitespace \cup {".", ",", "|", ":"}

\* the lowercase form of each character
LowerOf == [c \in Alphabet |->
              IF \E i \in 1..Len(UpperCase) : UpperCase[i] = c
              THEN LowerCase[CHOOSE i \in 1..Len(UpperCase) : UpperCase[i] = c]
              ELSE c]

LowerChar(c) == LowerOf[c]

\* str.lower()
Lower(s) == [i \in 1..Len(s) |-> LowerChar(s[i])]

\* sub in s
Contains(s, sub) ==
    \E i \in 0..(Len(s) - Len(sub)) : SubSeq(s, i + 1, i + Len(sub)) = sub

RECURSIVE SplitFrom(_, _, _, _)
SplitFrom(s, i, cur, acc) ==
    IF i > Len(s)
    THEN IF cur = <<>> THEN acc ELSE Append(acc, cur)
    ELSE IF s[i] \in Whitespace
         THEN SplitFrom(s, i + 1, <<>>, IF cur = <<>> THEN acc ELSE Append(acc, cur))
         ELSE SplitFrom(s, i + 1, Append(cur, s[i]), acc)

\* str.split(): the maximal runs of non-whitespace characters, in order
Split(s) == SplitFrom(s, 1, <<>>, <<>>)

RECURSIVE Cat(_)
\* the concatenation of a sequence of strings
Cat(ss) == IF ss = <<>> THEN <<>> ELSE Head(ss) \o Cat(Tail(ss))

\* all sequences over S of length at most n
SeqUpTo(S, n) == UNION {[1..k -> S] : k \in 0..n}

----------------------------------------------------------------------------
(* extract_moa_keyword                                                     *)

KW_inhibitor == <<"i", "n", "h", "i", "b", "i", "t", "o", "r">>
KW_agonist == <<"a", "g", "o", "n", "i", "s", "t">>
KW_antagonist == <<"a", "n", "t", "a", "g", "o", "n", "i", "s", "t">>
KW_modulator == <<"m", "o", "d", "u", "l", "a", "t", "o", "r">>
KW_blocker == <<"b", "l", "o", "c", "k", "e", "r">>
KW_activator == <<"a", "c", "t", "i", "v", "a", "t", "o", "r">>

\* the vocabulary, in the order the loop scans it
KEYWORDS == <<KW_inhibitor, KW_agonist, KW_antagonist, KW_modulator, KW_blocker,
              KW_activator>>

\* fallback: last word
LastWord(moa) ==
    IF moa = <<>>
    THEN Ret(NA)
    ELSE LET words == Split(moa)
         IN  IF words = <<>> THEN Raise("IndexError") ELSE Ret(words[Len(words)])

RECURSIVE KeywordScan(_, _, _)
\* for kw in [...]: if kw in <text>: return kw
KeywordScan(text, moa, i) ==
    IF i > Len(KEYWORDS)
    THEN LastWord(moa)
    ELSE IF Contains(text, KEYWORDS[i])
         THEN Ret(KEYWORDS[i])
         ELSE KeywordScan(text, moa, i + 1)

ExtractMoaKeyword_CaseSensitive(moa) == KeywordScan(moa, moa, 1)

ExtractMoaKeyword(moa) == KeywordScan(Lower(moa), moa, 1)

W_Blocker == <<"B", "l", "o", "c", "k", "e", "r">>
W_INHIBITOR == <<"I", "N", "H", "I", "B", "I", "T", "O", "R">>
W_kinase == <<"k", "i", "n", "a", "s", "e">>
W_H1 == <<"H", "1">>

\* the pieces mechanism-of-action texts are made of
MoaPieces == {KW_inhibitor, W_INHIBITOR, KW_agonist, KW_antagonist, KW_modulator,
              W_Blocker, KW_activator, W_kinase, W_H1, SP, TAB}

\* the mechanism-of-action texts the extractor is applied to
MoaTexts == {Cat(ps) : ps \in SeqUpTo(MoaPieces, MaxPieces)}

KwIdle == /\ kwText = <<>>
          /\ kwResult = NoResult
          /\ kwPc = "idle"

KwInit == /\ kwText \in MoaTexts
          /\ kwResult = NoResult
          /\ kwPc = "call"

ExtractMoaKeywordCall ==
    /\ kwPc = "call"
    /\ kwResult' = ExtractMoaKeyword(kwText)
    /\ kwPc' = "done"
    /\ UNCHANGED <<kwText, rsVars, tgVars, enVars, apVars, fmVars, msVars, mnVars, tpVars>>

----------------------------------------------------------------------------
(* get_chembl_id_exact                                                     *)

\* 1. Try exact matches
PARAMS_LIST == <<"pref_name__iexact",
                 "molecule_synonyms__synonym__iexact",
                 "molecule_synonyms__molecule_synonym__iexact">>

PARAMS_LIST_PARTIAL_NoSecondVariant == <<"pref_name__icontains",
                                         "molecule_synonyms__synonym__icontains">>

\* 2. If no exact match, try partial matches
PARAMS_LIST_PARTIAL == <<"pref_name__icontains",
                         "molecule_synonyms__synonym__icontains",
                         "molecule_synonyms__molecule_synonym__icontains">>

\* the searches the molecule endpoint is asked: a filter on one name field
SearchParams == {"pref_name__iexact",
                 "molecule_synonyms__synonym__iexact",
                 "molecule_synonyms__molecule_synonym__iexact",
                 "pref_name__icontains",
                 "molecule_synonyms__synonym__icontains",
                 "molecule_synonyms__molecule_synonym__icontains"}

\* the molecule_chembl_id of the k-th molecule the knowledge base lists for a
\* search: the identifiers of different searches differ
MoleculeOf(p, k) ==
    CASE p = "pref_name__iexact" -> 110 + k
      [] p = "molecule_synonyms__synonym__iexact" -> 120 + k
      [] p = "molecule_synonyms__molecule_synonym__iexact" -> 130 + k
      [] p = "pref_name__icontains" -> 210 + k
      [] p = "molecule_synonyms__synonym__icontains" -> 220 + k
      [] p = "molecule_synonyms__molecule_synonym__icontains" -> 230 + k

\* the c-th answer the molecule search may give to one query: the list of the
\* first c molecules it has for that query, or a non-success status
SearchResponse(p, c) ==
    IF c <= MaxHits
    THEN [status |-> HTTP_OK, molecules |-> [k \in 1..c |-> MoleculeOf(p, k)]]
    ELSE [status |-> ErrorStatuses[c - MaxHits], molecules |-> <<>>]

\* a knowledge base answers every search it may be asked
KnowledgeBases ==
    {[p \in SearchParams |-> SearchResponse(p, f[p])] :
        f \in [SearchParams -> 0..(MaxHits + Len(ErrorStatuses))]}

\* molecules[0]["molecule_chembl_id"]
FirstMolecule_Last(molecules) == molecules[Len(molecules)]

FirstMolecule(molecules) == molecules[1]

\* if resp.status_code == 200: molecules = ...; if molecules:
TierHit(resp) == resp.status = HTTP_OK /\ resp.molecules # <<>>

RsIdle == /\ rsKB = <<>>
          /\ rsTier = 0
          /\ rsIssued = <<>>
          /\ rsResult = NoResult
          /\ rsPc = "idle"

RsInit == /\ rsKB \in KnowledgeBases
          /\ rsTier = 1
          /\ rsIssued = <<>>
          /\ rsResult = NoResult
          /\ rsPc = "exact"

ExactQuery_NoEarlyReturn ==
    /\ rsPc = "exact"
    /\ LET params == PARAMS_LIST[rsTier]
           resp == rsKB[params]
       IN  /\ rsIssued' = Append(rsIssued, params)
           /\ rsResult' = IF TierHit(resp) THEN Ret(<<FirstMolecule(resp.molecules)>>)
                          ELSE rsResult
           /\ IF rsTier < Len(PARAMS_LIST)
              THEN rsTier' = rsTier + 1 /\ rsPc' = "exact"
              ELSE rsTier' = 1 /\ rsPc' = "partial"
    /\ UNCHANGED <<rsKB, kwVars, tgVars, enVars, apVars, fmVars, msVars, mnVars, tpVars>>

\* one iteration of the loop over params_list
ExactQuery ==
    /\ rsPc = "exact"
    /\ LET params == PARAMS_LIST[rsTier]
           resp == rsKB[params]
       IN  /\ rsIssued' = Append(rsIssued, params)
           /\ IF TierHit(resp)
              THEN /\ rsResult' = Ret(<<FirstMolecule(resp.molecules)>>)
                   /\ rsPc' = "done"
                   /\ rsTier' = rsTier
              ELSE /\ rsResult' = rsResult
                   /\ IF rsTier < Len(PARAMS_LIST)
                      THEN rsTier' = rsTier + 1 /\ rsPc' = "exact"
                      ELSE rsTier' = 1 /\ rsPc' = "partial"
    /\ UNCHANGED <<rsKB, kwVars, tgVars, enVars, apVars, fmVars, msVars, mnVars, tpVars>>

\* one iteration of the loop over params_list_partial
PartialQuery ==
    /\ rsPc = "partial"
    /\ rsTier <= Len(PARAMS_LIST_PARTIAL)
    /\ LET params == PARAMS_LIST_PARTIAL[rsTier]
           resp == rsKB[params]
       IN  /\ rsIssued' = Append(rsIssued, params)
           /\ IF TierHit(resp)
              THEN /\ rsResult' = Ret(<<FirstMolecule(resp.molecules)>>)
                   /\ rsPc' = "done"
                   /\ rsTier' = rsTier
              ELSE /\ rsResult' = rsResult
                   /\ rsTier' = rsTier + 1
                   /\ rsPc' = "partial"
    /\ UNCHANGED <<rsKB, kwVars, tgVars, enVars, apVars, fmVars, msVars, mnVars, tpVars>>

\* return []
ReturnEmpty ==
    /\ rsPc = "partial"
    /\ rsTier > Len(PARAMS_LIST_PARTIAL)
    /\ rsResult' = Ret(<<>>)
    /\ rsPc' = "done"
    /\ UNCHANGED <<rsKB, rsTier, rsIssued, kwVars, tgVars, enVars, apVars, fmVars, msVars, mnVars, tpVars>>

----------------------------------------------------------------------------
(* fetch_target_name                                                       *)

N_EGFR == <<"E", "G", "F", "R">>
N_ERBB1 == <<"E", "R", "B", "B", "1">>
N_P00533 == <<"P", "0", "0", "5", "3", "3">>
N_PrefName == <<"E", "G", "F", " ", "r", "e", "c", "e", "p", "t", "o", "r">>

\* dict.get(key, default)
Get(v, default) == IF v = None THEN default ELSE v

\* if syn.get("syn_type") == "GENE_SYMBOL"
IsGeneSymbol_AnyType(syn) == TRUE

IsGeneSymbol(syn) == syn.syn_type = "GENE_SYMBOL"

RECURSIVE ScanSynonyms(_, _)
\* for syn in comp.get("target_component_synonyms", [])
ScanSynonyms(syns, j) ==
    IF j > Len(syns)
    THEN NoResult
    ELSE IF IsGeneSymbol(syns[j])
         THEN Ret(Get(syns[j].component_synonym, NA))
         ELSE ScanSynonyms(syns, j + 1)

RECURSIVE ScanComponents(_, _)
\* for comp in target.get("target_components", [])
ScanComponents(comps, i) ==
    IF i > Len(comps)
    THEN NoResult
    ELSE LET r == ScanSynonyms(comps[i], 1)
         IN  IF r.kind = "return" THEN r ELSE ScanComponents(comps, i + 1)

\* the value fetch_target_name returns on the answer resp of the target endpoint
FetchTargetName(resp) ==
    IF resp.status = HTTP_OK
    THEN LET r == ScanComponents(resp.target.target_components, 1)
         IN  IF r.kind = "return" THEN r ELSE Ret(Get(resp.target.pref_name, NA))
    ELSE Ret(NA)

\* the component synonyms a target detail may list
Synonyms == {[syn_type |-> "GENE_SYMBOL", component_synonym |-> N_EGFR],
             [syn_type |-> "GENE_SYMBOL", component_synonym |-> N_ERBB1],
             [syn_type |-> "UNIPROT", component_synonym |-> N_P00533]}

NoTarget == [target_components |-> <<>>, pref_name |-> None]

\* the answers of the target endpoint: a non-success status, or a target detail
TargetResponses ==
    {[status |-> ErrorStatuses[e], target |-> NoTarget] : e \in 1..Len(ErrorStatuses)}
        \cup {[status |-> HTTP_OK,
               target |-> [target_components |-> comps, pref_name |-> pn]] :
                comps \in SeqUpTo(SeqUpTo(Synonyms, MaxSyns), MaxComps),
                pn \in {N_PrefName, None}}

TgIdle == /\ tgResp = [status |-> HTTP_OK, target |-> NoTarget]
          /\ tgResult = NoResult
          /\ tgPc = "idle"

TgInit == /\ tgResp \in TargetResponses
          /\ tgResult = NoResult
          /\ tgPc = "call"

FetchTargetNameCall ==
    /\ tgPc = "call"
    /\ tgResult' = FetchTargetName(tgResp)
    /\ tgPc' = "done"
    /\ UNCHANGED <<tgResp, kwVars, rsVars, enVars, apVars, fmVars, msVars, mnVars, tpVars>>

----------------------------------------------------------------------------
(* fetch_moa_targets_for_ids                                               *)

M_KinaseInhibitor == <<"k", "i", "n", "a", "s", "e", " ",
                       "i", "n", "h", "i", "b", "i", "t", "o", "r">>

T_CHEMBL203 == <<"CHEMBL203">>
T_CHEMBL1824 == <<"CHEMBL1824">>
TargetIds == {T_CHEMBL203, T_CHEMBL1824}

\* the lists of molecule identifiers the enricher is called with
ChemblIdLists == {<<>>, <<"CHEMBL25">>, <<"CHEMBL25", "CHEMBL941">>}

\* the records of the mechanism endpoint and of the activity endpoint
MechanismRecords ==
    {[mechanism_of_action |-> M_KinaseInhibitor, target_chembl_id |-> T_CHEMBL203],
     [mechanism_of_action |-> None, target_chembl_id |-> T_CHEMBL1824],
     [mechanism_of_action |-> M_KinaseInhibitor, target_chembl_id |-> None]}
ActivityRecords == {[target_chembl_id |-> t] : t \in TargetIds \cup {None}}

\* the answers of the mechanism endpoint and of the activity endpoint
MechanismResponses ==
    {[status |-> ErrorStatuses[e], mechanisms |-> <<>>] : e \in 1..Len(ErrorStatuses)}
        \cup {[status |-> HTTP_OK, mechanisms |-> ms] :
                ms \in SeqUpTo(MechanismRecords, MaxMechs)}
ActivityResponses ==
    {[status |-> ErrorStatuses[e], activities |-> <<>>] : e \in 1..Len(ErrorStatuses)}
        \cup {[status |-> HTTP_OK, activities |-> as] :
                as \in SeqUpTo(ActivityRecords, MaxActs)}

\* the target details the knowledge base holds during enrichment
D_GeneSymbol ==
    [status |-> HTTP_OK,
     target |-> [target_components |->
                    << <<[syn_type |-> "UNIPROT", component_synonym |-> N_P00533],
                         [syn_type |-> "GENE_SYMBOL", component_synonym |-> N_EGFR]>> >>,
                 pref_name |-> N_PrefName]]
D_PrefNameOnly ==
    [status |-> HTTP_OK,
     target |-> [target_components |->
                    << <<[syn_type |-> "UNIPROT", component_synonym |-> N_P00533]>> >>,
                 pref_name |-> N_PrefName]]
D_Failure == [status |-> ErrorStatuses[2], target |-> NoTarget]
TargetKBs == [TargetIds -> {D_GeneSymbol, D_PrefNameOnly, D_Failure}]

\* the activity answer logged for an identifier whose activities were not asked for
NotQueried == [status |-> HTTP_OK, activities |-> <<>>]

\* x or "NA"
OrNA(x) == IF x = None \/ x = <<>> THEN NA ELSE x

\* fetch_target_name(tgt_id) if tgt_id else "NA"
TargetNameOf(tgt_id, kb) ==
    IF tgt_id # None THEN FetchTargetName(kb[tgt_id]).value ELSE NA

\* the tuple appended for one mechanism record
MechanismTuple(chembl_id, mech, kb) ==
    <<chembl_id, OrNA(mech.mechanism_of_action),
      TargetNameOf(mech.target_chembl_id, kb), mech.target_chembl_id>>

PrimaryRecords_SkipFailedLookups(chembl_id, resp, kb) ==
    IF resp.status = HTTP_OK
    THEN LET failed(mech) == /\ mech.target_chembl_id # None
                             /\ kb[mech.target_chembl_id].status # HTTP_OK
             kept == SelectSeq(resp.mechanisms, LAMBDA mech : ~failed(mech))
         IN  [i \in 1..Len(kept) |-> MechanismTuple(chembl_id, kept[i], kb)]
    ELSE <<>>

\* the tuples appended by the loop over the mechanisms of one answer
PrimaryRecords(chembl_id, resp, kb) ==
    IF resp.status = HTTP_OK
    THEN [i \in 1..Len(resp.mechanisms) |->
            MechanismTuple(chembl_id, resp.mechanisms[i], kb)]
    ELSE <<>>

\* if not found_mechanism:
FallbackFires_Always(found_mechanism) == TRUE

FallbackFires(found_mechanism) == ~found_mechanism

\* the mechanism text of the tuple the activity fallback appends
FallbackMoa_NoTarget == <<"n", "o", " ", "t", "a", "r", "g", "e", "t">>

FallbackMoa == NA

\* the tuples appended by the activity fallback
FallbackRecords(chembl_id, act_resp, kb) ==
    IF act_resp.status = HTTP_OK /\ act_resp.activities # <<>>
    THEN LET tgt_id == act_resp.activities[1].target_chembl_id
         IN  << <<chembl_id, FallbackMoa, TargetNameOf(tgt_id, kb), tgt_id>> >>
    ELSE <<>>

EnIdle == /\ enIds = <<>>
          /\ enTargetKB = <<>>
          /\ enIdx = 0
          /\ mechanisms = <<>>
          /\ enLog = <<>>
          /\ enPc = "idle"

EnInit == /\ enIds \in ChemblIdLists
          /\ enTargetKB \in TargetKBs
          /\ enIdx = 1
          /\ mechanisms = <<>>
          /\ enLog = <<>>
          /\ enPc = "loop"

\* the activity answers an iteration may receive: none is asked for unless the
\* fallback fires
ActivityAnswers(found_mechanism) ==
    IF FallbackFires(found_mechanism) THEN ActivityResponses ELSE {NotQueried}

\* one iteration of the loop over chembl_ids: the mechanism request, the target
\* lookups of its records and, when no mechanism was found, the activity request
FetchMoaForId ==
    /\ enPc = "loop"
    /\ enIdx <= Len(enIds)
    /\ \E resp \in MechanismResponses :
          LET chembl_id == enIds[enIdx]
              primary == PrimaryRecords(chembl_id, resp, enTargetKB)
              found_mechanism == primary # <<>>
          IN  \E act_resp \in ActivityAnswers(found_mechanism) :
                 LET fallback == IF FallbackFires(found_mechanism)
                                 THEN FallbackRecords(chembl_id, act_resp, enTargetKB)
                                 ELSE <<>>
                 IN  /\ mechanisms' = mechanisms \o primary \o fallback
                     /\ enLog' = Append(enLog,
                                        [chembl_id |-> chembl_id,
                                         mech |-> resp,
                                         actQueried |-> FallbackFires(found_mechanism),
                                         act |-> act_resp,
                                         start |-> Len(mechanisms)])
    /\ enIdx' = enIdx + 1
    /\ UNCHANGED <<enIds, enTargetKB, enPc, kwVars, rsVars, tgVars, apVars, fmVars, msVars, mnVars, tpVars>>

\* return mechanisms
ReturnMechanisms ==
    /\ enPc = "loop"
    /\ enIdx > Len(enIds)
    /\ enPc' = "done"
    /\ UNCHANGED <<enIds, enTargetKB, enIdx, mechanisms, enLog, kwVars, rsVars, tgVars,
                   apVars, fmVars, msVars, mnVars, tpVars>>

----------------------------------------------------------------------------
(* fetch_approval_status, disease pipeline                                 *)

APPROVED == <<"A", "p", "p", "r", "o", "v", "e", "d">>
NOT_APPROVED == <<"N", "o", "t", " ", "A", "p", "p", "r", "o", "v", "e", "d">>
P_4 == <<"4", ".", "0">>
P_2 == <<"2", ".", "0">>

\* float(v) of the values the indication endpoint gives as approval phase
Float(v) == CASE v = P_4 -> 4
              [] v = P_2 -> 2

\* phase == 4
APPROVED_PHASE == 4

DN_Type2DiabetesMellitus == <<"t", "y", "p", "e", " ", "2", " ", "d", "i", "a", "b",
        "e", "t", "e", "s", " ", "m", "e", "l", "l", "i", "t", "u", "s">>
DN_Type2Diabetes == <<"T", "y", "p", "e", " ", "2", " ", "D", "i", "a", "b", "e", "t",
        "e", "s">>
EFO_Type2Diabetes == <<"t", "y", "p", "e", " ", "2", " ", "d", "i", "a", "b", "e", "t",
        "e", "s">>
EFO_Asthma == <<"a", "s", "t", "h", "m", "a">>
MESH_DiabetesMellitus == <<"D", "i", "a", "b", "e", "t", "e", "s", " ", "M", "e", "l",
        "l", "i", "t", "u", "s">>
REF_DiabetesStudy == <<"d", "i", "a", "b", "e", "t", "e", "s", " ", "s", "t", "u", "d",
        "y">>

\* the disease names the classifier is called with
DiseaseNames == {DN_Type2DiabetesMellitus, DN_Type2Diabetes, <<>>, <<" ">>}

\* the records of the indication endpoint
IndicationRecords ==
    {[efo_term |-> e, mesh_heading |-> m, indication_refs |-> refs,
      max_phase_for_ind |-> ph] :
        e \in {None, EFO_Type2Diabetes, EFO_Asthma},
        m \in {None, MESH_DiabetesMellitus},
        refs \in SeqUpTo({[ref_text |-> REF_DiabetesStudy]}, MaxRefs),
        ph \in {P_4, P_2, None}}

\* the answers of the indication endpoint
IndicationResponses ==
    {[status |-> ErrorStatuses[e], drug_indications |-> <<>>] :
        e \in 1..Len(ErrorStatuses)}
        \cup {[status |-> HTTP_OK, drug_indications |-> inds] :
                inds \in SeqUpTo(IndicationRecords, MaxInds)}

\* the texts the classifier tokenizes
ClassifierTexts == DiseaseNames \cup {EFO_Type2Diabetes, EFO_Asthma,
                                      MESH_DiabetesMellitus, REF_DiabetesStudy}

\* set(word.lower() for word in text.split()), for each text
TermsOf == [text \in ClassifierTexts |->
              LET words == Split(text) IN {Lower(words[i]) : i \in 1..Len(words)}]

Terms(text) == TermsOf[text]

\* if x: (a string that is present and not empty)
Truthy(x) == x # None /\ x # <<>>

\* ind_texts: the EFO term, the MeSH heading and the reference texts that are set
IndTexts(ind) ==
    (IF Truthy(ind.efo_term) THEN <<ind.efo_term>> ELSE <<>>)
        \o (IF Truthy(ind.mesh_heading) THEN <<ind.mesh_heading>> ELSE <<>>)
        \o SelectSeq([i \in 1..Len(ind.indication_refs) |-> ind.indication_refs[i].ref_text],
                     Truthy)

TextMatches_FloorDivision(disease_terms, text) ==
    LET common_terms == disease_terms \cap Terms(text)
    IN  Cardinality(common_terms) >= Cardinality(disease_terms) \div 2

\* len(common_terms) >= len(disease_terms) / 2, a division of reals
TextMatches(disease_terms, text) ==
    LET common_terms == disease_terms \cap Terms(text)
    IN  2 * Cardinality(common_terms) >= Cardinality(disease_terms)

\* float(ind.get("max_phase_for_ind", 0))
PhaseOf(ind) == IF ind.max_phase_for_ind = None THEN 0 ELSE Float(ind.max_phase_for_ind)

RECURSIVE ScanIndications(_, _, _)
\* for ind in indications: the status returned, and the record it was returned at
ScanIndications(disease_terms, indications, i) ==
    IF i > Len(indications)
    THEN [status |-> NOT_APPROVED, matched |-> 0]
    ELSE LET ind == indications[i]
             texts == IndTexts(ind)
         IN  IF \E t \in 1..Len(texts) : TextMatches(disease_terms, texts[t])
             THEN [status |-> IF PhaseOf(ind) = APPROVED_PHASE
                              THEN APPROVED ELSE NOT_APPROVED,
                   matched |-> i]
             ELSE ScanIndications(disease_terms, indications, i + 1)

FetchApprovalStatus(resp, disease_name) ==
    IF resp.status # HTTP_OK
    THEN [status |-> NA, matched |-> 0]
    ELSE IF resp.drug_indications = <<>>
         THEN [status |-> NOT_APPROVED, matched |-> 0]
         ELSE ScanIndications(Terms(disease_name), resp.drug_indications, 1)

ApIdle == /\ apDisease = <<>>
          /\ apResp = [status |-> HTTP_OK, drug_indications |-> <<>>]
          /\ apResult = NoResult
          /\ apMatched = 0
          /\ apPc = "idle"

ApInit == /\ apDisease \in DiseaseNames
          /\ apResp \in IndicationResponses
          /\ apResult = NoResult
          /\ apMatched = 0
          /\ apPc = "call"

FetchApprovalStatusCall ==
    /\ apPc = "call"
    /\ LET r == FetchApprovalStatus(apResp, apDisease)
       IN  /\ apResult' = Ret(r.status)
           /\ apMatched' = r.matched
    /\ apPc' = "done"
    /\ UNCHANGED <<apDisease, apResp, kwVars, rsVars, tgVars, enVars, fmVars, msVars, mnVars, tpVars>>

----------------------------------------------------------------------------
(* format_multi_drug_output                                                *)

COMMA_SEP == <<",", " ">>
PIPE_SEP == <<" ", "|", " ">>

RECURSIVE Join(_, _)
\* sep.join(strs)
Join(sep, strs) ==
    IF strs = <<>> THEN <<>>
    ELSE IF Len(strs) = 1 THEN strs[1]
         ELSE strs[1] \o sep \o Join(sep, Tail(strs))

Keep_SentinelKept(v) == v # <<>>

\* v and v != "NA"
Keep(v) == v # <<>> /\ v # NA

EntityValues_Deduplicated(vals) ==
    LET kept == SelectSeq(vals, Keep)
    IN  SelectSeq([i \in 1..Len(kept) |->
                      IF \E j \in 1..(i - 1) : kept[j] = kept[i] THEN <<>> ELSE kept[i]],
                  Keep)

\* [v for v in vals if v and v != "NA"]
EntityValues(vals) == SelectSeq(vals, Keep)

\* ", ".join([...]) if vals else "NA": the test is on the list as it was given
EntityString(vals) ==
    IF vals # <<>> THEN Join(COMMA_SEP, EntityValues(vals)) ELSE NA

\* " | ".join([... for vals in blocks])
FormatMultiDrugOutput(blocks) ==
    Join(PIPE_SEP, [i \in 1..Len(blocks) |-> EntityString(blocks[i])])

V_A == <<"A">>
V_B == <<"B">>
V_C == <<"C">>
V_X == <<"X">>

\* the value lists of one entity: names and the sentinel in every order, and
\* lists with an empty string
EntityLists ==
    SeqUpTo({V_A, V_B, NA}, MaxVals)
        \cup {<<<<>>>>, <<<<>>, V_A>>, <<V_A, <<>>>>, <<<<>>, NA>>}

\* the rows handed to the aggregator, the rows of the docstring and of the
\* aggregator round trip among them
BlockLists ==
    SeqUpTo(EntityLists, MaxBlocks)
        \cup {<<<<V_A, V_B>>, <<V_C>>>>, <<<<>>, <<V_X>>>>, <<<<NA>>, <<V_X>>>>}

FmIdle == /\ fmBlocks = <<>>
          /\ fmResult = NoResult
          /\ fmPc = "idle"

FmInit == /\ fmBlocks \in BlockLists
          /\ fmResult = NoResult
          /\ fmPc = "call"

FormatMultiDrugOutputCall ==
    /\ fmPc = "call"
    /\ fmResult' = Ret(FormatMultiDrugOutput(fmBlocks))
    /\ fmPc' = "done"
    /\ UNCHANGED <<fmBlocks, kwVars, rsVars, tgVars, enVars, apVars, msVars, mnVars, tpVars>>

----------------------------------------------------------------------------
(* get_mesh_term_for_disease and the use DBClient.fetch_data makes of it   *)

RATE_LIMIT_RETRY_PERIOD == 300
HTTP_TOO_MANY_REQUESTS == 429

\* raise HTTPException(status_code=429, detail="... Try again after
\* {RATE_LIMIT_RETRY_PERIOD} seconds.")
HTTPException ==
    [kind |-> "HTTPException", value |-> <<>>,
     status_code |-> HTTP_TOO_MANY_REQUESTS, retry_after |-> RATE_LIMIT_RETRY_PERIOD]

RECURSIVE Replace(_, _, _)
\* s.replace(old, "")
Replace(s, old, i) ==
    IF i > Len(s) THEN <<>>
    ELSE IF i + Len(old) - 1 <= Len(s) /\ SubSeq(s, i, i + Len(old) - 1) = old
         THEN Replace(s, old, i + Len(old))
         ELSE <<s[i]>> \o Replace(s, old, i + 1)

RECURSIVE Strip(_)
\* s.strip()
Strip(s) ==
    IF s = <<>> THEN s
    ELSE IF s[1] \in Whitespace THEN Strip(Tail(s))
    ELSE IF s[Len(s)] \in Whitespace THEN Strip(SubSeq(s, 1, Len(s) - 1))
    ELSE s

F_MeshTerms == <<"M", "e", "S", "H", " ", "T", "e", "r", "m", "s">>
F_AllFields == <<"A", "l", "l", " ", "F", "i", "e", "l", "d", "s">>
T_AsthmaMesh == <<"\"", "a", "s", "t", "h", "m", "a", "\"", "[", "M", "e", "S", "H", " ",
                  "T", "e", "r", "m", "s", "]">>
T_AsthmaAll == <<"\"", "a", "s", "t", "h", "m", "a", "\"", "[", "A", "l", "l", " ", "F",
                 "i", "e", "l", "d", "s", "]">>

\* term.text.replace('"', '').replace("[MeSH Terms]", "").strip()
CleanTerm(text) == Strip(Replace(Replace(text, <<"\"">>, 1), <<"[">> \o F_MeshTerms \o <<"]">>, 1))

\* the <TermSet> elements of an answer: <Field> and <Term> present or not
TermSets == {[Field |-> f, Term |-> t] : f \in {None, F_MeshTerms, F_AllFields},
                                         t \in {None, T_AsthmaMesh, T_AsthmaAll}}

\* what requests.get gives: no response at all (a transport error), or a
\* response with a status and a body that is well-formed XML or not
MeshExchanges ==
    {[response |-> FALSE, status |-> 0, xml |-> FALSE, term_sets |-> <<>>]}
        \cup {[response |-> TRUE, status |-> st, xml |-> FALSE, term_sets |-> <<>>] :
                st \in {HTTP_OK, HTTP_TOO_MANY_REQUESTS, ErrorStatuses[1], ErrorStatuses[2]}}
        \cup {[response |-> TRUE, status |-> st, xml |-> TRUE, term_sets |-> ts] :
                st \in {HTTP_OK, HTTP_TOO_MANY_REQUESTS, ErrorStatuses[1], ErrorStatuses[2]},
                ts \in SeqUpTo(TermSets, MaxTermSets)}

RECURSIVE ScanTermSets(_, _)
\* for term_set in root.findall(".//TermSet"): ... return None
ScanTermSets(term_sets, i) ==
    IF i > Len(term_sets) THEN Ret(None)
    ELSE LET field == term_sets[i].Field
             term == term_sets[i].Term
         IN  IF field # None /\ term # None /\ field = F_MeshTerms
             THEN Ret(CleanTerm(term))
             ELSE ScanTermSets(term_sets, i + 1)

\* the body of the try block: what it returns or raises
MeshTryBody_RateLimitNotSingledOut(x) ==
    IF ~x.response THEN Raise("RequestException")
    ELSE IF x.status >= 400 THEN Raise("RequestException")
    ELSE IF ~x.xml THEN Raise("ParseError")
    ELSE ScanTermSets(x.term_sets, 1)

MeshTryBody(x) ==
    IF ~x.response THEN Raise("RequestException")
    ELSE IF x.status = HTTP_TOO_MANY_REQUESTS THEN HTTPException
    \* response.raise_for_status(): HTTPError, a RequestException
    ELSE IF x.status >= 400 THEN Raise("RequestException")
    \* ET.fromstring(response.content)
    ELSE IF ~x.xml THEN Raise("ParseError")
    ELSE ScanTermSets(x.term_sets, 1)

\* the except clauses: HTTPException is raised again, a RequestException and
\* a ParseError are printed and None is returned
GetMeshTermForDisease(x) ==
    LET r == MeshTryBody(x)
    IN  IF r.kind \in {"RequestException", "ParseError"}
        THEN Ret(None)
        ELSE r

MsIdle == /\ msExchange = [response |-> FALSE, status |-> 0, xml |-> FALSE,
                           term_sets |-> <<>>]
          /\ msResult = NoResult
          /\ msMeshTerm = NoResult
          /\ msPc = "idle"

MsInit == /\ msExchange \in MeshExchanges
          /\ msResult = NoResult
          /\ msMeshTerm = NoResult
          /\ msPc = "call"

\* mesh_term = get_mesh_term_for_disease(disease_name)
GetMeshTermForDiseaseCall ==
    /\ msPc = "call"
    /\ msResult' = GetMeshTermForDisease(msExchange)
    /\ msPc' = "returned"
    /\ UNCHANGED <<msExchange, msMeshTerm, kwVars, rsVars, tgVars, enVars, apVars, fmVars, mnVars, tpVars>>

\* fetch_data: if not mesh_term: mesh_term = ""; an exception of the call is
\* not caught and leaves fetch_data
FetchDataMeshTerm ==
    /\ msPc = "returned"
    /\ msMeshTerm' = IF msResult.kind # "return" THEN msResult
                     ELSE IF Truthy(msResult.value) THEN msResult
                     ELSE Ret(<<>>)
    /\ msPc' = "done"
    /\ UNCHANGED <<msExchange, msResult, kwVars, rsVars, tgVars, enVars, apVars, fmVars, mnVars, tpVars>>

----------------------------------------------------------------------------
(* main: batch runs over the trials of a disease, and the CSV upsert       *)

PHASE2 == <<"P", "H", "A", "S", "E", "2">>

\* the phase column of ctgov.studies: a phase, or "NA" (not applicable)
Phases == {PHASE2, NA}

\* db_client.fetch_data(disease_name): one row per nct_id (the query groups by
\* the study), here the columns nct_id and phase
FetchedData ==
    {[i \in 1..MaxTrials |-> [nct_id |-> i, phase |-> ph[i]]] :
        ph \in [1..MaxTrials -> Phases]}

\* data[offset:offset + limit]
Slice(data, offset, limit) ==
    SubSeq(data, offset + 1,
           IF offset + limit < Len(data) THEN offset + limit ELSE Len(data))

\* a cell that pandas holds as missing
NaN == <<"NaN">>

\* pd.read_csv: the cell texts that are read as missing (the default
\* na_values, of which the model needs these)
NA_VALUES == {<<>>, NA, <<"N", "/", "A">>}

\* pd.read_csv(out_file), one cell
ReadCsvCell(text) == IF text \in NA_VALUES THEN NaN ELSE text

\* df.to_csv(out_file), one cell: a missing value is written as nothing
ToCsvCell(v) == IF v = NaN THEN <<>> ELSE v

\* a row of the file read and written again: every column but the key
RewrittenRow(r) ==
    [c \in DOMAIN r |-> IF c = "nct_id" THEN r[c] ELSE ToCsvCell(ReadCsvCell(r[c]))]

\* a row of the current batch written for the first time
WrittenRow(r) ==
    [c \in DOMAIN r |-> IF c = "nct_id" THEN r[c] ELSE ToCsvCell(r[c])]

\* the entry of one trial in the nctid_to_* dictionaries
Lookup(entries, nct_id) ==
    LET hits == SelectSeq(entries, LAMBDA e : e.nct_id = nct_id)
    IN  IF hits = <<>> THEN [nct_id |-> nct_id, Extracted |-> <<>>, MoA |-> <<>>,
                             Target |-> <<>>, Modality |-> <<>>, Approval |-> <<>>]
        ELSE hits[Len(hits)]

\* lines 102-113: the output columns added to a row of batch_data
OutputRow(row, entries) ==
    LET e == Lookup(entries, row.nct_id)
    IN  [nct_id |-> row.nct_id, phase |-> row.phase, Extracted |-> e.Extracted,
         MoA |-> e.MoA, Target |-> e.Target, Modality |-> e.Modality,
         Approval |-> e.Approval]

\* lines 117-125: the rows of the file after the run
Upsert(file, new_rows) ==
    IF file.exists
    THEN LET batch_ids == {new_rows[i].nct_id : i \in 1..Len(new_rows)}
             df_existing == SelectSeq(file.rows, LAMBDA r : r.nct_id \notin batch_ids)
         IN  [exists |-> TRUE,
              rows |-> [i \in 1..Len(df_existing) |-> RewrittenRow(df_existing[i])]
                          \o [i \in 1..Len(new_rows) |-> WrittenRow(new_rows[i])]]
    ELSE [exists |-> TRUE, rows |-> [i \in 1..Len(new_rows) |-> WrittenRow(new_rows[i])]]

MnIdle == /\ csvFile = [exists |-> FALSE, rows |-> <<>>]
          /\ batch_data = <<>>
          /\ extracted_drugs = <<>>
          /\ mnRow = 0
          /\ mnAggregated = <<>>
          /\ mnRaised = "none"
          /\ mnPc = "idle"

MnInit == /\ csvFile = [exists |-> FALSE, rows |-> <<>>]
          /\ batch_data = <<>>
          /\ extracted_drugs = <<>>
          /\ mnRow = 0
          /\ mnAggregated = <<>>
          /\ mnRaised = "none"
          /\ mnPc = "start"

\* the process ends with an exception: nothing of the run is written
Abort(exception) ==
    /\ mnRaised' = exception
    /\ mnPc' = "aborted"
    /\ extracted_drugs' = <<>>
    /\ mnRow' = 0
    /\ mnAggregated' = <<>>
    /\ UNCHANGED <<csvFile, batch_data>>

\* lines 23-46 of a new run of the script: the batch of this run
StartRun ==
    /\ mnPc \in {"start", "written", "aborted"}
    /\ \E data \in FetchedData, offset \in 0..(MaxTrials - 1), limit \in 1..MaxTrials :
          batch_data' = Slice(data, offset, limit)
    /\ extracted_drugs' = <<>>
    /\ mnRow' = 1
    /\ mnAggregated' = <<>>
    /\ mnRaised' = "none"
    /\ mnPc' = "extract"
    /\ UNCHANGED <<csvFile, kwVars, rsVars, tgVars, enVars, apVars, fmVars, msVars, tpVars>>

\* extract_drug_names, one row: the exchange with the language model either
\* gives no response, or a non-success status (raise_for_status), or a text
\* naming some drugs; no exception is caught
ExtractDrugs ==
    /\ mnPc = "extract"
    /\ mnRow <= Len(batch_data)
    /\ \/ Abort("ConnectionError")
       \/ Abort("HTTPError")
       \/ /\ \E k \in 0..MaxDrugs :
                extracted_drugs' =
                    Append(extracted_drugs,
                           [nct_id |-> batch_data[mnRow].nct_id,
                            extracted_drugs |-> [j \in 1..k |-> j]])
          /\ mnRow' = mnRow + 1
          /\ UNCHANGED <<csvFile, batch_data, mnAggregated, mnRaised, mnPc>>
    /\ UNCHANGED <<kwVars, rsVars, tgVars, enVars, apVars, fmVars, msVars, tpVars>>

\* return all_results, and lines 52-60
ExtractionDone ==
    /\ mnPc = "extract"
    /\ mnRow > Len(batch_data)
    /\ mnRow' = 1
    /\ mnPc' = "loop"
    /\ UNCHANGED <<csvFile, batch_data, extracted_drugs, mnAggregated, mnRaised,
                   kwVars, rsVars, tgVars, enVars, apVars, fmVars, msVars, tpVars>>

\* lines 74-80 for the first drug of a trial: a request of the identifier
\* search or of the enrichment gives no response and requests raises, or all
\* are answered and line 80 calls chembl_data.get_moa_with_target_fallback,
\* which the module does not define
ProcessDrug ==
    /\ mnPc = "loop"
    /\ mnRow <= Len(extracted_drugs)
    /\ extracted_drugs[mnRow].extracted_drugs # <<>>
    /\ \/ Abort("ConnectionError")
       \/ Abort("AttributeError")
    /\ UNCHANGED <<kwVars, rsVars, tgVars, enVars, apVars, fmVars, msVars, tpVars>>

\* lines 63-72 and 95-99 for a trial without an extracted drug
AggregateTrial ==
    /\ mnPc = "loop"
    /\ mnRow <= Len(extracted_drugs)
    /\ extracted_drugs[mnRow].extracted_drugs = <<>>
    /\ mnAggregated' =
          Append(mnAggregated,
                 [nct_id |-> extracted_drugs[mnRow].nct_id,
                  Extracted |-> Join(COMMA_SEP, <<>>),
                  MoA |-> Join(PIPE_SEP, <<>>),
                  Target |-> FormatMultiDrugOutput(<<>>),
                  Modality |-> FormatMultiDrugOutput(<<>>),
                  Approval |-> FormatMultiDrugOutput(<<>>)])
    /\ mnRow' = mnRow + 1
    /\ UNCHANGED <<csvFile, batch_data, extracted_drugs, mnRaised, mnPc,
                   kwVars, rsVars, tgVars, enVars, apVars, fmVars, msVars, tpVars>>

\* lines 101-126: the rows of the batch get their output columns and the file
\* is written
WriteCsv ==
    /\ mnPc = "loop"
    /\ mnRow > Len(extracted_drugs)
    /\ csvFile' = Upsert(csvFile,
                         [i \in 1..Len(batch_data) |->
                             OutputRow(batch_data[i], mnAggregated)])
    /\ mnPc' = "written"
    /\ UNCHANGED <<batch_data, extracted_drugs, mnRow, mnAggregated, mnRaised,
                   kwVars, rsVars, tgVars, enVars, apVars, fmVars, msVars, tpVars>>

----------------------------------------------------------------------------
(* target pipeline: get_drugs_for_target and the loops of main             *)

MOL_1 == <<"CHEMBL941">>
MOL_2 == <<"CHEMBL1421">>
PN_Imatinib == <<"IMATINIB">>
Molecules == {MOL_1, MOL_2}

\* the answers of mechanism.json?target_chembl_id=...: the molecule
\* identifiers of the records, None for a record without one
TargetMechanismResponses ==
    {[status |-> ErrorStatuses[e], mechanisms |-> <<>>] : e \in 1..Len(ErrorStatuses)}
        \cup {[status |-> HTTP_OK, mechanisms |-> ms] :
                ms \in SeqUpTo(Molecules \cup {None}, MaxTargetMechs)}

\* the answers of molecule/{mol}.json, for each molecule
MoleculeKBs ==
    [Molecules -> {[status |-> HTTP_OK, pref_name |-> PN_Imatinib],
                   [status |-> HTTP_OK, pref_name |-> None],
                   [status |-> ErrorStatuses[1], pref_name |-> None]}]

NewMolecule_NoSeenSet(mols, i) == Truthy(mols[i])

\* if mol and mol not in seen
NewMolecule(mols, i) ==
    Truthy(mols[i]) /\ \A j \in 1..(i - 1) : mols[j] # mols[i]

\* get_drugs_for_target: the drugs of the records that pass the test, in
\* record order, each with the preferred name of its detail answer
GetDrugsForTarget(resp, kb) ==
    IF resp.status # HTTP_OK THEN <<>>
    ELSE LET mols == resp.mechanisms
             kept == SelectSeq([i \in 1..Len(mols) |->
                                    IF NewMolecule(mols, i) THEN mols[i] ELSE None],
                               Truthy)
         IN  [i \in 1..Len(kept) |->
                [molecule_chembl_id |-> kept[i],
                 pref_name |-> IF kb[kept[i]].status = HTTP_OK
                               THEN kb[kept[i]].pref_name ELSE None]]

\* drug.get("pref_name") or chembl_id
DrugName(drug) ==
    IF Truthy(drug.pref_name) THEN drug.pref_name ELSE drug.molecule_chembl_id

\* the records of drug_indication.json for a drug
DrugIndicationRecords ==
    {[efo_term |-> EFO_Asthma, mesh_heading |-> None, max_phase_for_ind |-> P_4],
     [efo_term |-> None, mesh_heading |-> MESH_DiabetesMellitus,
      max_phase_for_ind |-> None],
     [efo_term |-> None, mesh_heading |-> None, max_phase_for_ind |-> P_2]}

\* get_indications_for_drug: a name and the phase for every record, nothing
\* on a non-success answer
GetIndicationsForDrug(resp) ==
    IF resp.status # HTTP_OK THEN <<>>
    ELSE [i \in 1..Len(resp.drug_indications) |->
            LET ind == resp.drug_indications[i]
            IN  [indication_name |->
                    IF Truthy(ind.efo_term) THEN ind.efo_term
                    ELSE IF Truthy(ind.mesh_heading) THEN ind.mesh_heading ELSE NA,
                 max_phase_for_ind |-> ind.max_phase_for_ind]]

\* get_approval_status_from_indication: float() of a phase that is not a
\* number raises, and the handler answers "NA"
GetApprovalStatusFromIndication(ind) ==
    IF ind.max_phase_for_ind = None THEN NA
    ELSE IF Float(ind.max_phase_for_ind) = APPROVED_PHASE THEN APPROVED
    ELSE NOT_APPROVED

\* one dict appended to results
ResultRow(drug, indication, approval, nct_id) ==
    [Drug |-> DrugName(drug), Indication |-> indication, Approval |-> approval,
     nct_id |-> nct_id]

TpIdle == /\ tpMechResp = [status |-> HTTP_OK, mechanisms |-> <<>>]
          /\ tpMolKB = <<>>
          /\ drugs = <<>>
          /\ tpDrug = 0
          /\ tpIndications = <<>>
          /\ tpInd = 0
          /\ results = <<>>
          /\ tpPc = "idle"

TpInit == /\ tpMechResp \in TargetMechanismResponses
          /\ tpMolKB \in MoleculeKBs
          /\ drugs = <<>>
          /\ tpDrug = 0
          /\ tpIndications = <<>>
          /\ tpInd = 0
          /\ results = <<>>
          /\ tpPc = "start"

\* the answers of drug_indication.json?molecule_chembl_id=...
DrugIndicationResponses ==
    {[status |-> ErrorStatuses[e], drug_indications |-> <<>>] :
        e \in 1..Len(ErrorStatuses)}
        \cup {[status |-> HTTP_OK, drug_indications |-> inds] :
                inds \in SeqUpTo(DrugIndicationRecords, MaxDrugInds)}

\* the trials fetch_trials_for_drug_and_indication finds for a pair, by
\* their identifiers: the query groups by identifier, so none comes twice
NCT_1 == <<"NCT00000001">>
PairTrials == {<<>>, <<NCT_1>>}

\* target_main lines 32-35: the target is resolved, or the script returns
GetTargetChemblId ==
    /\ tpPc = "start"
    /\ \E found \in BOOLEAN : tpPc' = IF found THEN "target" ELSE "returned"
    /\ UNCHANGED <<tpMechResp, tpMolKB, drugs, tpDrug, tpIndications, tpInd, results,
                   kwVars, rsVars, tgVars, enVars, apVars, fmVars, msVars, mnVars>>

\* target_main lines 40-43: the drugs of the target; none ends the script
GetDrugsForTargetCall ==
    /\ tpPc = "target"
    /\ drugs' = GetDrugsForTarget(tpMechResp, tpMolKB)
    /\ tpDrug' = 1
    /\ tpPc' = IF drugs' = <<>> THEN "returned" ELSE "drug"
    /\ UNCHANGED <<tpMechResp, tpMolKB, tpIndications, tpInd, results,
                   kwVars, rsVars, tgVars, enVars, apVars, fmVars, msVars, mnVars>>

\* target_main lines 52-75, one drug: its indications; with none, the row
\* of lines 60-74 and the next drug
ForDrug ==
    /\ tpPc = "drug"
    /\ tpDrug <= Len(drugs)
    /\ \E resp \in DrugIndicationResponses :
          LET inds == GetIndicationsForDrug(resp)
          IN  /\ tpIndications' = inds
              /\ IF inds = <<>>
                 THEN /\ results' = Append(results, ResultRow(drugs[tpDrug], NA, NA, <<>>))
                      /\ tpDrug' = tpDrug + 1
                      /\ tpInd' = 0
                      /\ tpPc' = "drug"
                 ELSE /\ tpInd' = 1
                      /\ tpPc' = "indication"
                      /\ UNCHANGED <<results, tpDrug>>
    /\ UNCHANGED <<tpMechResp, tpMolKB, drugs,
                   kwVars, rsVars, tgVars, enVars, apVars, fmVars, msVars, mnVars>>

\* target_main lines 77-137, one indication of the drug: the trials found
\* under the preferred name give a row each; with none, line 92 looks up
\* get_drug_synonyms, which chembl_data_target does not define, and the
\* AttributeError ends the script before anything is written
ForIndication ==
    /\ tpPc = "indication"
    /\ LET drug == drugs[tpDrug]
           ind == tpIndications[tpInd]
       IN  \E trials \in PairTrials :
              IF trials = <<>>
              THEN /\ tpPc' = "aborted"
                   /\ UNCHANGED <<results, tpDrug, tpInd>>
              ELSE /\ results' = results \o
                        [k \in 1..Len(trials) |->
                            ResultRow(drug, ind.indication_name,
                                      GetApprovalStatusFromIndication(ind), trials[k])]
                   /\ IF tpInd < Len(tpIndications)
                      THEN /\ tpInd' = tpInd + 1
                           /\ UNCHANGED <<tpDrug, tpPc>>
                      ELSE /\ tpInd' = 0
                           /\ tpDrug' = tpDrug + 1
                           /\ tpPc' = "drug"
    /\ UNCHANGED <<tpMechResp, tpMolKB, drugs, tpIndications,
                   kwVars, rsVars, tgVars, enVars, apVars, fmVars, msVars, mnVars>>

\* target_main lines 139-140: the rows are written to the output file
WriteOutput ==
    /\ tpPc = "drug"
    /\ tpDrug > Len(drugs)
    /\ tpPc' = "written"
    /\ UNCHANGED <<tpMechResp, tpMolKB, drugs, tpDrug, tpIndications, tpInd, results,
                   kwVars, rsVars, tgVars, enVars, apVars, fmVars, msVars, mnVars>>

----------------------------------------------------------------------------
(* Specifications: one per component, the other components idle.           *)

KeywordInit == KwInit /\ RsIdle /\ TgIdle /\ EnIdle /\ ApIdle /\ FmIdle /\ MsIdle /\ MnIdle /\ TpIdle
KeywordNext == ExtractMoaKeywordCall
KeywordSpec == KeywordInit /\ [][KeywordNext]_vars

ResolverInit == RsInit /\ KwIdle /\ TgIdle /\ EnIdle /\ ApIdle /\ FmIdle /\ MsIdle /\ MnIdle /\ TpIdle
ResolverNext == ExactQuery \/ PartialQuery \/ ReturnEmpty
ResolverSpec == ResolverInit /\ [][ResolverNext]_vars

TargetNameInit == TgInit /\ KwIdle /\ RsIdle /\ EnIdle /\ ApIdle /\ FmIdle /\ MsIdle /\ MnIdle /\ TpIdle
TargetNameNext == FetchTargetNameCall
TargetNameSpec == TargetNameInit /\ [][TargetNameNext]_vars

EnricherInit == EnInit /\ KwIdle /\ RsIdle /\ TgIdle /\ ApIdle /\ FmIdle /\ MsIdle /\ MnIdle /\ TpIdle
EnricherNext == FetchMoaForId \/ ReturnMechanisms
EnricherSpec == EnricherInit /\ [][EnricherNext]_vars

ApprovalInit == ApInit /\ KwIdle /\ RsIdle /\ TgIdle /\ EnIdle /\ FmIdle /\ MsIdle /\ MnIdle /\ TpIdle
ApprovalNext == FetchApprovalStatusCall
ApprovalSpec == ApprovalInit /\ [][ApprovalNext]_vars

AggregatorInit == FmInit /\ KwIdle /\ RsIdle /\ TgIdle /\ EnIdle /\ ApIdle /\ MsIdle /\ MnIdle /\ TpIdle
AggregatorNext == FormatMultiDrugOutputCall
AggregatorSpec == AggregatorInit /\ [][AggregatorNext]_vars

MeshInit == MsInit /\ KwIdle /\ RsIdle /\ TgIdle /\ EnIdle /\ ApIdle /\ FmIdle /\ MnIdle /\ TpIdle
MeshNext == GetMeshTermForDiseaseCall \/ FetchDataMeshTerm
MeshSpec == MeshInit /\ [][MeshNext]_vars

MainInit == MnInit /\ KwIdle /\ RsIdle /\ TgIdle /\ EnIdle /\ ApIdle /\ FmIdle /\ MsIdle /\ TpIdle
MainNext == StartRun \/ ExtractDrugs \/ ExtractionDone \/ ProcessDrug \/ AggregateTrial
                \/ WriteCsv
MainSpec == MainInit /\ [][MainNext]_vars

TargetMainInit == TpInit /\ KwIdle /\ RsIdle /\ TgIdle /\ EnIdle /\ ApIdle /\ FmIdle /\ MsIdle /\ MnIdle
TargetMainNext == GetTargetChemblId \/ GetDrugsForTargetCall \/ ForDrug \/ ForIndication
                      \/ WriteOutput
TargetMainSpec == TargetMainInit /\ [][TargetMainNext]_vars

----------------------------------------------------------------------------
(* Properties.                                                             *)

\* the least element of a non-empty set of integers
Min(S) == CHOOSE x \in S : \A y \in S : x <= y

\* the tiers in the order the resolver is said to try them
ClaimTierOrder == <<"pref_name__iexact",
                    "molecule_synonyms__synonym__iexact",
                    "molecule_synonyms__molecule_synonym__iexact",
                    "pref_name__icontains",
                    "molecule_synonyms__synonym__icontains",
                    "molecule_synonyms__molecule_synonym__icontains">>

\* the search has at least one hit / no hit at all (an error counts as none)
HasHits(resp) == resp.status = HTTP_OK /\ Len(resp.molecules) >= 1
ZeroHits(resp) == resp.status # HTTP_OK \/ Len(resp.molecules) = 0

\* the tiers (positions in ClaimTierOrder) whose search has a hit
HittingTiers == {i \in 1..Len(ClaimTierOrder) : HasHits(rsKB[ClaimTierOrder[i]])}

\* C1: the searches are issued in the order exact preferred name, exact synonym
\* (both field variants), partial preferred name, partial synonym (both
\* variants); the resolver returns a list of at most one identifier, the first
\* molecule of the first search in that order that has a hit; a name with an
\* exact-synonym hit, a partial-preferred-name hit and no exact-preferred-name
\* hit resolves to the first molecule of an exact-synonym search.
C1_TierOrderFirstHit ==
    /\ \A i \in 1..Len(rsIssued) : rsIssued[i] = ClaimTierOrder[i]
    /\ rsPc = "done" =>
        /\ rsResult.kind = "return"
        /\ Len(rsResult.value) <= 1
        /\ HittingTiers = {} => rsResult.value = <<>>
        /\ HittingTiers # {} =>
              rsResult.value = <<rsKB[ClaimTierOrder[Min(HittingTiers)]].molecules[1]>>
        /\ (/\ HittingTiers \cap {2, 3} # {}
            /\ 4 \in HittingTiers
            /\ 1 \notin HittingTiers)
              => \E i \in HittingTiers \cap {2, 3} :
                    rsResult.value = <<rsKB[ClaimTierOrder[i]].molecules[1]>>

\* C1 witness: no exact preferred-name hit, two hits on the second synonym
\* field only, hits on the partial preferred name; the exact-synonym hit wins
C1_Witness ==
    /\ rsPc = "done"
    /\ HittingTiers = {3, 4, 6}
    /\ Len(rsKB["molecule_synonyms__molecule_synonym__iexact"].molecules) = 2
    /\ rsResult = Ret(<<rsKB["molecule_synonyms__molecule_synonym__iexact"].molecules[1]>>)

\* C2: a search answered with a non-success status counts as zero hits and the
\* cascade goes on to the next tier; the resolver returns the empty list exactly
\* when every tier has zero hits, and it always returns (it never raises).
C2_ErrorsAreZeroHits ==
    /\ rsResult.kind \in {"none", "return"}
    /\ (/\ rsIssued # <<>>
        /\ rsKB[rsIssued[Len(rsIssued)]].status # HTTP_OK
        /\ Len(rsIssued) < Len(ClaimTierOrder))
          => rsPc \in {"exact", "partial"}
    /\ rsPc = "done" =>
        /\ rsResult.kind = "return"
        /\ rsResult.value = <<>> <=> \A p \in SearchParams : ZeroHits(rsKB[p])
        /\ rsResult.value = <<>> => Len(rsIssued) = Len(ClaimTierOrder)

\* C2 witness: two searches failed, a later tier had a hit and was returned
C2_Witness ==
    /\ rsPc = "done"
    /\ Len(rsIssued) = 5
    /\ rsKB[rsIssued[1]].status # HTTP_OK
    /\ rsKB[rsIssued[4]].status # HTTP_OK
    /\ rsResult.value # <<>>

\* the tuples appended for the j-th identifier processed
Segment(j) ==
    SubSeq(mechanisms, enLog[j].start + 1,
           IF j < Len(enLog) THEN enLog[j + 1].start ELSE Len(mechanisms))

\* the display name the target name resolver gives for a target identifier
ClaimName(tgt_id) ==
    IF tgt_id = None THEN NA ELSE FetchTargetName(enTargetKB[tgt_id]).value

\* C3: when the mechanism source returns k >= 1 records for an identifier,
\* exactly k tuples are emitted for it, one per mechanism in source order, each
\* with the identifier, the mechanism's text (the sentinel when it is missing)
\* and the display name of its target; the activity source is not asked and no
\* fallback tuple is added.
C3_OneRecordPerMechanism ==
    \A j \in 1..Len(enLog) :
        LET e == enLog[j]
            k == Len(e.mech.mechanisms)
        IN  (e.mech.status = HTTP_OK /\ k >= 1) =>
                /\ Len(Segment(j)) = k
                /\ ~e.actQueried
                /\ \A i \in 1..k :
                      /\ Segment(j)[i][1] = e.chembl_id
                      /\ Segment(j)[i][2] =
                            (IF e.mech.mechanisms[i].mechanism_of_action = None
                             THEN NA ELSE e.mech.mechanisms[i].mechanism_of_action)
                      /\ Segment(j)[i][3] = ClaimName(e.mech.mechanisms[i].target_chembl_id)
                      /\ Segment(j)[i][4] = e.mech.mechanisms[i].target_chembl_id

\* C3 witness: two mechanisms for one identifier, the second without text
C3_Witness ==
    /\ enLog # <<>>
    /\ Len(enLog[1].mech.mechanisms) = 2
    /\ enLog[1].mech.mechanisms[2].mechanism_of_action = None
    /\ Len(Segment(1)) = 2
    /\ Segment(1)[1][2] = M_KinaseInhibitor
    /\ Segment(1)[2][2] = NA

\* C4: an identifier whose mechanism answer is empty and whose activity answer
\* has at least one record, the first naming target T, yields exactly one tuple
\* (id, sentinel, name(T), T): only the first activity record is used.
C4_FallbackRecord ==
    \A j \in 1..Len(enLog) :
        LET e == enLog[j]
        IN  (/\ e.mech.status = HTTP_OK
             /\ e.mech.mechanisms = <<>>
             /\ e.act.status = HTTP_OK
             /\ e.act.activities # <<>>
             /\ e.act.activities[1].target_chembl_id # None) =>
                LET T == e.act.activities[1].target_chembl_id
                IN  Segment(j) = << <<e.chembl_id, NA, ClaimName(T), T>> >>

\* C4 witness: an empty mechanism answer, two activity records naming different
\* targets; one tuple, for the first target
C4_Witness ==
    /\ enLog # <<>>
    /\ enLog[1].mech.status = HTTP_OK
    /\ enLog[1].mech.mechanisms = <<>>
    /\ enLog[1].actQueried
    /\ Len(enLog[1].act.activities) = 2
    /\ enLog[1].act.activities[1].target_chembl_id = T_CHEMBL203
    /\ enLog[1].act.activities[2].target_chembl_id = T_CHEMBL1824
    /\ Len(Segment(1)) = 1
    /\ Segment(1)[1][4] = T_CHEMBL203

\* C5: the activity source is asked only after the mechanism source answered
\* successfully with zero records; when the mechanism request fails the activity
\* source is not asked and the identifier contributes no tuple.
C5_FallbackOnlyOnEmpty ==
    \A j \in 1..Len(enLog) :
        LET e == enLog[j]
        IN  /\ e.actQueried => (e.mech.status = HTTP_OK /\ e.mech.mechanisms = <<>>)
            /\ e.mech.status # HTTP_OK => (~e.actQueried /\ Segment(j) = <<>>)

\* C6: on a successful detail fetch the resolver returns the value of the first
\* synonym of type GENE_SYMBOL, scanning the components and then their synonyms
\* in source order; without such a synonym it returns the preferred name (the
\* sentinel when the detail has none).
C6_FirstGeneSymbol ==
    (tgPc = "done" /\ tgResp.status = HTTP_OK) =>
        LET flat == Cat(tgResp.target.target_components)
            gene == {i \in 1..Len(flat) : flat[i].syn_type = "GENE_SYMBOL"}
        IN  IF gene # {}
            THEN tgResult = Ret(flat[Min(gene)].component_synonym)
            ELSE tgResult = Ret(IF tgResp.target.pref_name = None
                                THEN NA ELSE tgResp.target.pref_name)

\* C6 witness: the first component has no gene symbol, the second lists two
C6_Witness ==
    /\ tgPc = "done"
    /\ tgResp.status = HTTP_OK
    /\ Len(tgResp.target.target_components) = 2
    /\ tgResp.target.target_components[1] =
          <<[syn_type |-> "UNIPROT", component_synonym |-> N_P00533]>>
    /\ tgResp.target.target_components[2] =
          <<[syn_type |-> "GENE_SYMBOL", component_synonym |-> N_ERBB1],
            [syn_type |-> "GENE_SYMBOL", component_synonym |-> N_EGFR]>>
    /\ tgResult = Ret(N_ERBB1)

ClaimVocabulary == <<KW_inhibitor, KW_agonist, KW_antagonist, KW_modulator, KW_blocker,
                     KW_activator>>

\* the positions at which word occurs in text, letter case ignored
OccurrencesCI(word, text) ==
    {p \in 1..(Len(text) - Len(word) + 1) :
        \A c \in 1..Len(word) : LowerChar(text[p + c - 1]) = LowerChar(word[c])}

\* the vocabulary terms (positions in ClaimVocabulary) that occur in the text
TermsPresent == {i \in 1..Len(ClaimVocabulary) :
                    OccurrencesCI(ClaimVocabulary[i], kwText) # {}}

\* C8: the extractor returns the first term of the vocabulary, in list order,
\* that occurs case-insensitively as a substring of the text, whatever the
\* positions of the terms in the text.
C8_KeywordPriority ==
    (kwPc = "done" /\ TermsPresent # {}) =>
        kwResult = Ret(ClaimVocabulary[Min(TermsPresent)])

\* C8 witness: "blocker" stands before "inhibitor" in the text, in capitals;
\* the keyword is "inhibitor"
C8_Witness ==
    /\ kwPc = "done"
    /\ OccurrencesCI(KW_blocker, kwText) # {}
    /\ OccurrencesCI(KW_inhibitor, kwText) # {}
    /\ Min(OccurrencesCI(KW_blocker, kwText)) < Min(OccurrencesCI(KW_inhibitor, kwText))
    /\ ~Contains(kwText, KW_inhibitor)
    /\ kwResult = Ret(KW_inhibitor)

\* the whitespace-delimited tokens of the text, as spans <<first, last>>
TokenSpans(text) ==
    {sp \in (1..Len(text)) \X (1..Len(text)) :
        /\ sp[1] <= sp[2]
        /\ \A p \in sp[1]..sp[2] : text[p] \notin Whitespace
        /\ sp[1] = 1 \/ text[sp[1] - 1] \in Whitespace
        /\ sp[2] = Len(text) \/ text[sp[2] + 1] \in Whitespace}

\* w is the last whitespace-delimited token of the text
IsLastToken(w, text) ==
    \E sp \in TokenSpans(text) :
        /\ \A other \in TokenSpans(text) : other[1] <= sp[1]
        /\ w = SubSeq(text, sp[1], sp[2])

\* C9: when no vocabulary term occurs in the text, the extractor returns the
\* last whitespace-delimited token of a non-empty text, and the sentinel for the
\* empty text.
C9_LastTokenFallback ==
    (kwPc = "done" /\ TermsPresent = {}) =>
        /\ kwResult.kind = "return"
        /\ kwText # <<>> => IsLastToken(kwResult.value, kwText)
        /\ kwText = <<>> => kwResult.value = NA

\* ceil(n / 2)
CeilHalf(n) == (n + 1) \div 2

\* the candidate texts of an indication record
ClaimCandidateTexts(ind) ==
    ({ind.efo_term, ind.mesh_heading}
        \cup {ind.indication_refs[i].ref_text : i \in 1..Len(ind.indication_refs)})
        \ {None, <<>>}

\* the record matches the disease name: some candidate text shares at least
\* ceil(|disease tokens| / 2) lowercase tokens with it
ClaimMatches(ind, disease_name) ==
    \E text \in ClaimCandidateTexts(ind) :
        Cardinality(Terms(disease_name) \cap Terms(text))
            >= CeilHalf(Cardinality(Terms(disease_name)))

\* C10: the classifier decides at the first indication record that has a
\* candidate text sharing at least ceil(|disease tokens| / 2) lowercase tokens
\* with the disease name, and at no record when none has; with disease "type 2
\* diabetes mellitus" and a first record of term "type 2 diabetes" it answers
\* Approved for phase 4 and Not Approved for phase 2.
C10_TokenOverlapMatch ==
    (apPc = "done" /\ apResp.status = HTTP_OK /\ apResp.drug_indications # <<>>) =>
        LET inds == apResp.drug_indications
        IN  /\ apMatched \in 0..Len(inds)
            /\ apMatched = 0 <=> \A i \in 1..Len(inds) : ~ClaimMatches(inds[i], apDisease)
            /\ apMatched > 0 =>
                  /\ ClaimMatches(inds[apMatched], apDisease)
                  /\ \A i \in 1..(apMatched - 1) : ~ClaimMatches(inds[i], apDisease)
            /\ (apDisease = DN_Type2DiabetesMellitus /\ inds[1].efo_term = EFO_Type2Diabetes)
                  => /\ apMatched = 1
                     /\ inds[1].max_phase_for_ind = P_4 => apResult = Ret(APPROVED)
                     /\ inds[1].max_phase_for_ind = P_2 => apResult = Ret(NOT_APPROVED)

\* C10 witness: "type 2 diabetes mellitus" against the term "type 2 diabetes",
\* phase 4, after a record that does not match
C10_Witness ==
    /\ apPc = "done"
    /\ apDisease = DN_Type2DiabetesMellitus
    /\ Len(apResp.drug_indications) = 2
    /\ apResp.drug_indications[1].efo_term = EFO_Asthma
    /\ apResp.drug_indications[1].mesh_heading = None
    /\ apResp.drug_indications[1].indication_refs = <<>>
    /\ apResp.drug_indications[2].efo_term = EFO_Type2Diabetes
    /\ apResp.drug_indications[2].max_phase_for_ind = P_4
    /\ apMatched = 2
    /\ apResult = Ret(APPROVED)

\* the positions of the indication records that match the disease name
MatchingRecords ==
    {i \in 1..Len(apResp.drug_indications) :
        ClaimMatches(apResp.drug_indications[i], apDisease)}

\* the approval phase of the record is 4
HasPhase4(ind) == ind.max_phase_for_ind = P_4

\* C11: the classifier answers Approved when any record that matches the
\* disease name has approval phase 4, whatever its position among the matching
\* records, and Not Approved only when at least one record matches and no
\* matching record has phase 4.
C11_ApprovedForAnyMatch ==
    (apPc = "done" /\ apResp.status = HTTP_OK) =>
        /\ (\E i \in MatchingRecords : HasPhase4(apResp.drug_indications[i]))
              => apResult = Ret(APPROVED)
        /\ apResult = Ret(NOT_APPROVED) =>
              /\ MatchingRecords # {}
              /\ \A i \in MatchingRecords : ~HasPhase4(apResp.drug_indications[i])

\* C12: the classifier answers with the sentinel, never Not Approved, when
\* there are indication records and none matches the disease name, and when
\* there is no indication record at all.
C12_UnknownWhenNoMatch ==
    (apPc = "done" /\ apResp.status = HTTP_OK /\ MatchingRecords = {}) =>
        apResult = Ret(NA)

RECURSIVE SplitBy(_, _, _, _)
\* the pieces of s between the occurrences of the separator sep, from
\* position i on, cur being the piece under construction
SplitBy(s, sep, i, cur) ==
    IF i > Len(s) THEN <<cur>>
    ELSE IF i + Len(sep) - 1 <= Len(s) /\ SubSeq(s, i, i + Len(sep) - 1) = sep
         THEN <<cur>> \o SplitBy(s, sep, i + Len(sep), <<>>)
         ELSE SplitBy(s, sep, i + 1, Append(cur, s[i]))

\* the per-entity strings of a rendered row
RenderedEntities(row) == SplitBy(row, <<" ", "|", " ">>, 1, <<>>)

\* the values of a rendered entity
RenderedValues(entity) == SplitBy(entity, <<",", " ">>, 1, <<>>)

\* the values of an entity that are neither empty nor the sentinel, in order
ClaimKept(vals) == SelectSeq(vals, LAMBDA v : v \notin {<<>>, NA})

\* C13: the rendered row has one " | "-separated string per entity, and the
\* string of an entity that keeps a value is the ", "-separated list of its
\* values that are neither empty nor "NA"; [["A","B"],["C"]] renders as
\* "A, B | C".
C13_DropAndJoin ==
    (fmPc = "done" /\ fmBlocks # <<>>) =>
        /\ fmResult.kind = "return"
        /\ LET entities == RenderedEntities(fmResult.value)
           IN  /\ Len(entities) = Len(fmBlocks)
               /\ \A i \in 1..Len(fmBlocks) :
                     ClaimKept(fmBlocks[i]) # <<>>
                        => RenderedValues(entities[i]) = ClaimKept(fmBlocks[i])
        /\ fmBlocks = <<<<V_A, V_B>>, <<V_C>>>>
              => fmResult.value = <<"A", ",", " ", "B", " ", "|", " ", "C">>

\* C13 witness: an entity with a sentinel before a name, then an entity of
\* two names
C13_Witness ==
    /\ fmPc = "done"
    /\ fmBlocks = <<<<NA, V_B>>, <<V_A, V_B>>>>
    /\ fmResult = Ret(<<"B", " ", "|", " ", "A", ",", " ", "B">>)

\* C14: every entity that keeps no value is rendered as "NA" in its position,
\* whether its list was empty from the start or held only empty strings and
\* sentinels; [[],["X"]] renders as "NA | X" and so does [["NA"],["X"]].
C14_EmptyEntityIsSentinel ==
    (fmPc = "done" /\ fmBlocks # <<>>) =>
        /\ LET entities == RenderedEntities(fmResult.value)
           IN  \A i \in 1..Len(fmBlocks) :
                  ClaimKept(fmBlocks[i]) = <<>>
                     => i <= Len(entities) /\ entities[i] = NA
        /\ fmBlocks \in {<<<<>>, <<V_X>>>>, <<<<NA>>, <<V_X>>>>}
              => fmResult.value = <<"N", "A", " ", "|", " ", "X">>

\* C15: an entirely empty outer list renders as the sentinel alone.
C15_EmptyRowIsSentinel ==
    (fmPc = "done" /\ fmBlocks = <<>>) => fmResult = Ret(NA)

RECURSIVE Flatten(_)
\* the members of the members of a sequence of sequences, in order
Flatten(ss) == IF ss = <<>> THEN <<>> ELSE Head(ss) \o Flatten(Tail(ss))

\* every value of a rendered row, in the order it is written
RenderedRowValues(row) ==
    LET entities == RenderedEntities(row)
    IN  ClaimKept(Flatten([i \in 1..Len(entities) |-> RenderedValues(entities[i])]))

\* C16: the kept values are written in input order at both levels, each as
\* often as it occurs: reading the row from left to right gives the kept
\* values of the first entity in their order, then those of the second, and
\* so on, with nothing sorted and no repetition removed.
C16_OrderPreserved ==
    fmPc = "done" =>
        RenderedRowValues(fmResult.value)
            = Flatten([i \in 1..Len(fmBlocks) |-> ClaimKept(fmBlocks[i])])

\* C16 witness: values out of alphabetical order, one of them in both entities
\* and twice in the second
C16_Witness ==
    /\ fmPc = "done"
    /\ fmBlocks = <<<<V_B, V_A>>, <<V_B, V_B>>>>
    /\ fmResult = Ret(<<"B", ",", " ", "A", " ", "|", " ", "B", ",", " ", "B">>)

\* the call failed otherwise than by a rate limit: no response, a non-success
\* status other than 429, or a body that is not XML
OtherMeshFailure(x) ==
    \/ ~x.response
    \/ x.status \notin {HTTP_OK, 429}
    \/ ~x.xml

\* C18: a 429 answer leaves get_mesh_term_for_disease as an HTTPException
\* that carries the status and the retry period, and leaves the caller
\* fetch_data the same way instead of becoming "no MeSH term"; every other
\* failure (no response, another non-success status, a body that is not XML)
\* makes the function return None, and it raises in no other case.
C18_RateLimitSurfaced ==
    msPc \in {"returned", "done"} =>
        /\ (msExchange.response /\ msExchange.status = 429) =>
              /\ msResult.kind = "HTTPException"
              /\ msResult.status_code = 429
              /\ msResult.retry_after = 300
              /\ msPc = "done" => msMeshTerm = msResult
        /\ ~(msExchange.response /\ msExchange.status = 429) =>
              /\ msResult.kind = "return"
              /\ OtherMeshFailure(msExchange) => msResult.value = None
              /\ msPc = "done" => msMeshTerm.kind = "return"

\* C18 witness: a 429 answer with a well-formed body that names a MeSH term
\* has left fetch_data as the exception
C18_Witness ==
    /\ msPc = "done"
    /\ msExchange.response
    /\ msExchange.status = 429
    /\ msExchange.xml
    /\ Len(msExchange.term_sets) = 1
    /\ msExchange.term_sets[1] = [Field |-> F_MeshTerms, Term |-> T_AsthmaMesh]
    /\ msMeshTerm.kind = "HTTPException"
    /\ msMeshTerm.retry_after = 300

\* the NCT IDs of a sequence of rows
NctIds(rows) == {rows[i].nct_id : i \in 1..Len(rows)}

\* the rows of a sequence that belong to one NCT ID
RowsOf(rows, nct_id) == SelectSeq(rows, LAMBDA r : r.nct_id = nct_id)

\* C17: no failure of an external call ends a run: a run is never aborted by
\* an exception, and when it is over every trial of its batch has a row in
\* the output file.
C17_NoFailureAbortsBatch ==
    /\ mnPc # "aborted"
    /\ mnPc = "written" => NctIds(batch_data) \subseteq NctIds(csvFile.rows)

\* C20: every write of the output file leaves at most one row per NCT ID; the
\* rows of the NCT IDs of the current batch are those of the current batch,
\* and the rows of every other NCT ID are the rows the file held before,
\* unchanged.
C20_UpsertByNctId ==
    [][(mnPc = "loop" /\ mnPc' = "written") =>
          /\ \A id \in NctIds(csvFile'.rows) : Len(RowsOf(csvFile'.rows, id)) = 1
          /\ \A i \in 1..Len(batch_data) :
                RowsOf(csvFile'.rows, batch_data[i].nct_id)
                    = <<OutputRow(batch_data[i], mnAggregated)>>
          /\ \A id \in NctIds(csvFile.rows) \ NctIds(batch_data) :
                RowsOf(csvFile'.rows, id) = RowsOf(csvFile.rows, id)]_vars

\* the position of a query in the stated tier order
TierIndex(params) == CHOOSE i \in 1..Len(ClaimTierOrder) : ClaimTierOrder[i] = params

\* C22: the queries are issued strictly in tier order, at most six of them
\* per name, and none after a query that returned at least one molecule: every
\* query but the last one issued had no hit, and after a hit the resolver is
\* done.
C22_StopAtFirstHit ==
    /\ Len(rsIssued) <= 6
    /\ \A i, j \in 1..Len(rsIssued) :
          i < j => TierIndex(rsIssued[i]) < TierIndex(rsIssued[j])
    /\ \A i \in 1..(Len(rsIssued) - 1) : ZeroHits(rsKB[rsIssued[i]])
    /\ (rsIssued # <<>> /\ HasHits(rsKB[rsIssued[Len(rsIssued)]])) => rsPc = "done"

\* C22 witness: the second query had the first hit and was the last one
\* issued, though the partial searches have hits as well
C22_Witness ==
    /\ rsPc = "done"
    /\ Len(rsIssued) = 2
    /\ HasHits(rsKB[rsIssued[2]])
    /\ {2, 4, 5} \subseteq HittingTiers

\* the vocabulary terms that are whole words of the text, letter case ignored
VocabularyWords ==
    LET words == Split(kwText)
    IN  {Lower(words[i]) : i \in 1..Len(words)}
            \cap {ClaimVocabulary[i] : i \in 1..Len(ClaimVocabulary)}

\* C23: for a text in which "antagonist" is the only vocabulary term present
\* as a whole word, such as "H1 antagonist", the extractor returns
\* "antagonist".
C23_AntagonistReturned ==
    (kwPc = "done" /\ VocabularyWords = {KW_antagonist}) =>
        kwResult = Ret(KW_antagonist)

\* C24: the extractor is total: for every text, a whitespace-only one
\* included, it returns a string and never raises.
C24_NeverRaises ==
    kwPc = "done" => kwResult.kind = "return"

\* C25: a disease name with no tokens (empty or whitespace only) matches no
\* indication record: the classifier decides at no record for such a name.
C25_NoTokensNoMatch ==
    (apPc = "done" /\ Split(apDisease) = <<>>) => apMatched = 0

\* the rows of the results that belong to a drug
RowsOfDrug(drug) ==
    SelectSeq(results, LAMBDA row : row.Drug = DrugName(drug))

\* C21: the target pipeline reaches the writing of its output in every
\* case, with at least one row for every drug found and for every pair of a
\* drug and an indication: a drug without indications has one row with the
\* indication "NA" and the approval status "NA", and a pair without trials
\* has a row all the same.
C21_RowForEveryDrugAndPair ==
    /\ tpPc # "aborted"
    /\ tpPc = "written" => \A d \in 1..Len(drugs) : RowsOfDrug(drugs[d]) # <<>>
    /\ (tpPc \in {"drug", "written"} /\ tpDrug > 1) =>
          LET prev == drugs[tpDrug - 1]
          IN  IF tpIndications = <<>>
              THEN results[Len(results)] = ResultRow(prev, NA, NA, <<>>)
              ELSE \A k \in 1..Len(tpIndications) :
                      \E r \in 1..Len(results) :
                          /\ results[r].Drug = DrugName(prev)
                          /\ results[r].Indication = tpIndications[k].indication_name

\* C27: get_drugs_for_target gives every molecule identifier of the
\* mechanism records once, in the order of first occurrence, and skips the
\* records without one; a mechanism query that fails gives the empty list;
\* a drug whose detail fetch fails stays in the list without preferred name.
C27_EachMoleculeOnceInOrder ==
    tpDrug >= 1 =>
        LET mols == tpMechResp.mechanisms
            ids == [i \in 1..Len(drugs) |-> drugs[i].molecule_chembl_id]
            First(m) == Min({i \in 1..Len(mols) : mols[i] = m})
        IN  /\ tpMechResp.status # HTTP_OK => drugs = <<>>
            /\ tpMechResp.status = HTTP_OK =>
                  /\ \A i, j \in 1..Len(ids) : i < j => ids[i] # ids[j]
                  /\ {ids[i] : i \in 1..Len(ids)}
                        = {mols[i] : i \in 1..Len(mols)} \ {None}
                  /\ \A i, j \in 1..Len(ids) : i < j => First(ids[i]) < First(ids[j])
                  /\ \A i \in 1..Len(ids) :
                        /\ tpMolKB[ids[i]].status # HTTP_OK => drugs[i].pref_name = None
                        /\ tpMolKB[ids[i]].status = HTTP_OK =>
                              drugs[i].pref_name = tpMolKB[ids[i]].pref_name

C27_Witness ==
    /\ tpDrug >= 1
    /\ tpMechResp.mechanisms = <<MOL_2, None, MOL_2>>
    /\ tpMolKB[MOL_2].status # HTTP_OK
    /\ drugs = <<[molecule_chembl_id |-> MOL_2, pref_name |-> None]>>

\* C26: every trial that main processes with n >= 1 extracted drugs gets an
\* aggregated entry whose MoA, Target, Modality and Approval Status columns
\* each have exactly n segments between " | " separators, one per drug.
C26_SegmentPerDrug ==
    [][(/\ mnPc = "loop"
        /\ mnRow <= Len(extracted_drugs)
        /\ extracted_drugs[mnRow].extracted_drugs # <<>>) =>
          LET trial == extracted_drugs[mnRow]
              n == Len(trial.extracted_drugs)
              Segments(column) == Len(SplitBy(column, PIPE_SEP, 1, <<>>))
          IN  /\ Len(mnAggregated') = Len(mnAggregated) + 1
              /\ mnAggregated'[Len(mnAggregated')].nct_id = trial.nct_id
              /\ Segments(mnAggregated'[Len(mnAggregated')].MoA) = n
              /\ Segments(mnAggregated'[Len(mnAggregated')].Target) = n
              /\ Segments(mnAggregated'[Len(mnAggregated')].Modality) = n
              /\ Segments(mnAggregated'[Len(mnAggregated')].Approval) = n]_vars

====
